---- MODULE Spec2Model ----
(***************************************************************************)
(* Maze generation (randomized depth-first carving) and maze solving       *)
(* (recursive backtracking) of MazeAndCell.py, as a state machine.         *)
(*                                                                         *)
(* A cell is the pair <<x, y>> of its coordinates; maze_map maps every     *)
(* allocated cell to its four wall flags.  make_maze runs one loop         *)
(* iteration per step; solve runs one call frame event per step, with the  *)
(* Python call stack kept in frames.                                       *)
(***************************************************************************)
EXTENDS Integers, Sequences, FiniteSets, TLC

\* Largest number of cells of a grid the constructor is asked for.
MaxCells == 6
\* Largest number of top-level solve calls made on one maze.
MaxCalls == 2
\* Largest number of cells of a grid that two interleaved solves run on.
MaxPairCells == 4

VARIABLES
    pc,            \* "new" (not constructed), "idle", "make" (in make_maze), "solve" (in solve)
    nx, ny,        \* Maze.nx, Maze.ny
    ix, iy,        \* Maze.ix, Maze.iy
    maze_map,      \* Maze.maze_map: cell -> (direction -> wall present)
    solution,      \* Maze.solution: sequence of cells
    cell_stack,    \* make_maze local
    current_cell,  \* make_maze local
    nv,            \* make_maze local; 0 while make_maze never reached line 200
    destination,   \* argument of the running or last top-level solve
    start,         \* argument of the running or last top-level solve; <<>> is None
    frames,        \* activations of solve that are inside their for loop, outermost first
    calls,         \* number of top-level solve calls made so far
    result,        \* outcome of the running or last call
    first_map,     \* maze_map of the Maze object built before this one, if any
    suspended      \* the thread that is not running: its pc, solve arguments, frames, result

vars == <<pc, nx, ny, ix, iy, maze_map, solution, cell_stack, current_cell, nv,
          destination, start, frames, calls, result, first_map, suspended>>

makeVars == <<cell_stack, current_cell, nv>>
solveVars == <<destination, start, frames, calls>>
gridVars == <<nx, ny, ix, iy>>
twinVars == <<first_map, suspended>>

-----------------------------------------------------------------------------
(* Cell *)

Dirs == {"N", "S", "E", "W"}

\* Cell.wall_pairs
wall_pairs == [N |-> "S", S |-> "N", E |-> "W", W |-> "E"]

\* Cell.__init__: the walls dict of a new cell.  Python iterates it in
\* insertion order, WallOrder.
NewWalls == [N |-> TRUE, S |-> TRUE, E |-> TRUE, W |-> TRUE]
WallOrder == <<"N", "S", "E", "W">>

\* all() taken for any(): a cell counts as untouched while one wall stands.
has_any_wall(m, cell) == \E d \in Dirs : m[cell][d]

\* Cell.has_all_walls, on the cell `cell` of wall matrix m
has_all_walls(m, cell) == \A d \in Dirs : m[cell][d]

\* Only the wall on self's side is cleared.
knock_down_wall_one_side(m, self, other, wall) == [m EXCEPT ![self][wall] = FALSE]

\* Cell.knock_down_wall: self.walls[wall] = False, then other's paired wall
knock_down_wall(m, self, other, wall) ==
    LET m1 == [m EXCEPT ![self][wall] = FALSE]
    IN  [m1 EXCEPT ![other][wall_pairs[wall]] = FALSE]

-----------------------------------------------------------------------------
(* Maze: grid and accessors *)

\* No cell: stands for None, and for "the access raised IndexError".
NoCell == <<>>

\* range(n)
Range(n) == 0 .. (n - 1)

\* The cells Maze.__init__ allocates for an nx x ny request.
CellsOf(w, h) == Range(w) \X Range(h)
Cells == CellsOf(nx, ny)

\* A Python list index: i into a list of length len.  Negative indices count
\* from the end; anything else out of range raises IndexError (-1 here, which
\* no list position is).
PyIndex(i, len) ==
    IF 0 <= i /\ i < len THEN i
    ELSE IF i < 0 /\ -len <= i THEN i + len
    ELSE -1

\* Maze.cell_at: self.maze_map[x][y]; NoCell when either index raises.
cell_at(x, y) ==
    LET px == PyIndex(x, nx)
        py == PyIndex(y, ny)
    IN  IF px = -1 \/ py = -1 THEN NoCell ELSE <<px, py>>

\* Maze.move
delta == [W |-> <<-1, 0>>, E |-> <<1, 0>>, S |-> <<0, 1>>, N |-> <<0, -1>>]
move(cell, direction) ==
    <<cell[1] + delta[direction][1], cell[2] + delta[direction][2]>>

\* Maze.find_valid_neighbours: the list of (direction, neighbour), in the
\* order of its `directions` list.
NeighbourOrder == <<"W", "E", "S", "N">>
\* The neighbour is in bounds, whatever its walls.
ValidDirectionInBounds(m, cell, d) ==
    LET c2 == move(cell, d)
    IN  /\ 0 <= c2[1] /\ c2[1] < nx
        /\ 0 <= c2[2] /\ c2[2] < ny
\* The bounds test without its lower bounds: x2 < nx and y2 < ny only.
ValidDirectionNoLowerBound(m, cell, d) ==
    LET c2 == move(cell, d)
    IN  /\ c2[1] < nx
        /\ c2[2] < ny
        /\ has_all_walls(m, cell_at(c2[1], c2[2]))
\* Lines 187-190: the neighbour of cell in direction d is in bounds and has
\* all its walls.
ValidDirection(m, cell, d) ==
    LET c2 == move(cell, d)
    IN  /\ 0 <= c2[1] /\ c2[1] < nx
        /\ 0 <= c2[2] /\ c2[2] < ny
        /\ has_all_walls(m, cell_at(c2[1], c2[2]))
find_valid_neighbours(m, cell) ==
    LET ds == SelectSeq(NeighbourOrder, LAMBDA d : ValidDirection(m, cell, d))
    IN  [i \in 1 .. Len(ds) |-> <<ds[i], cell_at(move(cell, ds[i])[1], move(cell, ds[i])[2])>>]

-----------------------------------------------------------------------------
(* Outcomes of a call *)

Running == "running"
ReturnedNone == "None"
ReturnedTrue == "True"
ReturnedFalse == "False"
ReturnedCell == "Cell"
RaisedIndexError == "IndexError"

\* result: which operation ran last, with what it returned or raised; for
\* cell_at also its arguments and the cell returned.
Outcome(op, val) == [op |-> op, val |-> val, args |-> NoCell, cell |-> NoCell]

\* What a thread holds of a call: where it is, the arguments and frames of
\* its solve, and the outcome.
Context(p, dest, s, fr, res) ==
    [pc |-> p, destination |-> dest, start |-> s, frames |-> fr, result |-> res]

-----------------------------------------------------------------------------
(* Maze.__init__ *)

Init ==
    /\ pc = "new"
    /\ nx = 0 /\ ny = 0 /\ ix = 0 /\ iy = 0
    /\ maze_map = [c \in {} |-> NewWalls]
    /\ solution = <<>>
    /\ cell_stack = <<>>
    /\ current_cell = NoCell
    /\ nv = 0
    /\ destination = NoCell
    /\ start = NoCell
    /\ frames = <<>>
    /\ calls = 0
    /\ result = Outcome("none", ReturnedNone)
    /\ first_map = [c \in {} |-> NewWalls]
    /\ suspended = Context("idle", NoCell, NoCell, <<>>, Outcome("none", ReturnedNone))

\* Maze(w, h, x, y).  No argument is validated: range(w) is empty for w <= 0.
\* The entry cell is drawn in bounds when there is a cell at all.
Construct(w, h, x, y) ==
    /\ pc = "new"
    /\ nx' = w /\ ny' = h
    /\ ix' = x /\ iy' = y
    /\ maze_map' = [c \in CellsOf(w, h) |-> NewWalls]
    /\ solution' = <<>>
    /\ pc' = "idle"
    /\ result' = Outcome("init", ReturnedNone)
    /\ UNCHANGED <<twinVars, makeVars, solveVars>>

-----------------------------------------------------------------------------
(* Maze.cell_at, called from outside *)

CellAtCall(x, y) ==
    /\ pc = "idle"
    /\ result' = [op |-> "cell_at",
                  val |-> IF cell_at(x, y) = NoCell THEN RaisedIndexError ELSE ReturnedCell,
                  args |-> <<x, y>>,
                  cell |-> cell_at(x, y)]
    /\ UNCHANGED <<twinVars, pc, gridVars, maze_map, solution, makeVars, solveVars>>

-----------------------------------------------------------------------------
(* Maze.make_maze *)

\* The cell count taken one too large: the loop runs once more.
n_off_by_one == nx * ny + 1

\* Total number of cells (line 196)
n == nx * ny

\* Lines 196-200.  cell_at raises on a grid without cells, before nv is set.
\* make_maze is called on the fresh grid, before any solve.
MakeMazeCall ==
    /\ pc = "idle"
    /\ nv = 0
    /\ calls = 0
    /\ IF cell_at(ix, iy) = NoCell
       THEN /\ result' = Outcome("make_maze", RaisedIndexError)
            /\ UNCHANGED <<pc, makeVars>>
       ELSE /\ cell_stack' = <<>>
            /\ current_cell' = cell_at(ix, iy)
            /\ nv' = 1
            /\ pc' = "make"
            /\ result' = Outcome("make_maze", Running)
    /\ UNCHANGED <<twinVars, gridVars, maze_map, solution, solveVars>>

\* The dead end reads the top of the stack and leaves it there.
BacktrackKeepTop ==
    /\ pc = "make"
    /\ nv < n
    /\ Len(find_valid_neighbours(maze_map, current_cell)) = 0
    /\ IF cell_stack = <<>>
       THEN /\ pc' = "idle"
            /\ result' = Outcome("make_maze", RaisedIndexError)
            /\ UNCHANGED <<cell_stack, current_cell>>
       ELSE /\ current_cell' = cell_stack[Len(cell_stack)]
            /\ UNCHANGED <<cell_stack, pc, result>>
    /\ UNCHANGED <<twinVars, gridVars, maze_map, solution, nv, solveVars>>

\* Lines 202-208: a loop iteration at a dead end.  list.pop() on an empty
\* list raises IndexError.
Backtrack ==
    /\ pc = "make"
    /\ nv < n
    /\ Len(find_valid_neighbours(maze_map, current_cell)) = 0
    /\ IF cell_stack = <<>>
       THEN /\ pc' = "idle"
            /\ result' = Outcome("make_maze", RaisedIndexError)
            /\ UNCHANGED <<cell_stack, current_cell>>
       ELSE /\ current_cell' = cell_stack[Len(cell_stack)]
            /\ cell_stack' = SubSeq(cell_stack, 1, Len(cell_stack) - 1)
            /\ UNCHANGED <<pc, result>>
    /\ UNCHANGED <<twinVars, gridVars, maze_map, solution, nv, solveVars>>

\* The carve without the push of the current cell.
CarveStepNoPush(i) ==
    LET neighbours == find_valid_neighbours(maze_map, current_cell)
        direction == neighbours[i][1]
        next_cell == neighbours[i][2]
    IN  /\ maze_map' = knock_down_wall(maze_map, current_cell, next_cell, direction)
        /\ cell_stack' = cell_stack
        /\ current_cell' = next_cell
        /\ nv' = nv + 1

\* The carve pushes the cell it moves to, not the one it leaves.
CarveStepPushNext(i) ==
    LET neighbours == find_valid_neighbours(maze_map, current_cell)
        direction == neighbours[i][1]
        next_cell == neighbours[i][2]
    IN  /\ maze_map' = knock_down_wall(maze_map, current_cell, next_cell, direction)
        /\ cell_stack' = Append(cell_stack, next_cell)
        /\ current_cell' = next_cell
        /\ nv' = nv + 1

\* The carve without nv += 1.
CarveStepNoCount(i) ==
    LET neighbours == find_valid_neighbours(maze_map, current_cell)
        direction == neighbours[i][1]
        next_cell == neighbours[i][2]
    IN  /\ maze_map' = knock_down_wall(maze_map, current_cell, next_cell, direction)
        /\ cell_stack' = Append(cell_stack, current_cell)
        /\ current_cell' = next_cell
        /\ nv' = nv

\* Lines 202-215: a loop iteration that carves; random.choice picks entry i.
CarveStep(i) ==
    LET neighbours == find_valid_neighbours(maze_map, current_cell)
        direction == neighbours[i][1]
        next_cell == neighbours[i][2]
    IN  /\ maze_map' = knock_down_wall(maze_map, current_cell, next_cell, direction)
        /\ cell_stack' = Append(cell_stack, current_cell)
        /\ current_cell' = next_cell
        /\ nv' = nv + 1

Carve ==
    /\ pc = "make"
    /\ nv < n
    /\ \E i \in 1 .. Len(find_valid_neighbours(maze_map, current_cell)) : CarveStep(i)
    /\ UNCHANGED <<twinVars, pc, gridVars, solution, solveVars, result>>

\* Line 202: the loop test fails, make_maze returns.
MakeMazeReturn ==
    /\ pc = "make"
    /\ ~(nv < n)
    /\ pc' = "idle"
    /\ result' = Outcome("make_maze", ReturnedNone)
    /\ UNCHANGED <<twinVars, gridVars, maze_map, solution, makeVars, solveVars>>

-----------------------------------------------------------------------------
(* Maze.solve *)

\* start_cell.wall_pairs.get(come_from, None)
PairOf(come_from) == IF come_from \in Dirs THEN wall_pairs[come_from] ELSE "None"

\* Lines 228-231: the open directions of start_cell other than the one back
\* to where the search came from, in the order of the walls dict.
possible_directions(m, start_cell, come_from) ==
    SelectSeq(WallOrder, LAMBDA k : ~m[start_cell][k] /\ k # PairOf(come_from))

\* Line 220
check_cell_is_destination(cell, dest) == cell[1] = dest[1] /\ cell[2] = dest[2]

\* list.pop(-1): the list without its last element
PopLast(s) == SubSeq(s, 1, Len(s) - 1)

\* A frame of solve inside its for loop: its start_cell, its
\* possible_directions and the index of the next direction to try.
Frame(c, ds) == [cell |-> c, dirs |-> ds, k |-> 1]

\* Lines 222-236 of one activation of solve(dest, coor, come_from) whose
\* callers' frames are fr: up to the point where it returns or enters its
\* loop.  A True return (line 226) is passed up by every caller (lines
\* 241-242), an IndexError of cell_at unwinds every caller; both end the
\* top-level call.  A False return (line 234) resumes the caller's loop.
SolveEnter(dest, coor, come_from, fr) ==
    LET start_cell == cell_at(coor[1], coor[2])
    IN  IF start_cell = NoCell
        THEN /\ pc' = "idle"
             /\ frames' = <<>>
             /\ result' = Outcome("solve", RaisedIndexError)
             /\ UNCHANGED solution
        ELSE IF check_cell_is_destination(start_cell, dest)
        THEN /\ solution' = Append(solution, start_cell)
             /\ pc' = "idle"
             /\ frames' = <<>>
             /\ result' = Outcome("solve", ReturnedTrue)
        ELSE IF Len(possible_directions(maze_map, start_cell, come_from)) = 0
        THEN /\ UNCHANGED solution
             /\ frames' = fr
             /\ pc' = IF fr = <<>> THEN "idle" ELSE "solve"
             /\ result' = Outcome("solve", IF fr = <<>> THEN ReturnedFalse ELSE Running)
        ELSE /\ solution' = Append(solution, start_cell)
             /\ frames' = Append(fr, Frame(start_cell,
                                possible_directions(maze_map, start_cell, come_from)))
             /\ pc' = "solve"
             /\ result' = Outcome("solve", Running)

\* Coordinates handed to cell_at and solve from outside: every cell, one
\* negative and one too large coordinate pair.
OutsideCoords == {<<-1, 0>>, <<nx, 0>>}
Coords == Cells \cup OutsideCoords

\* maze.solve(dest) or maze.solve(dest, s): a top-level call; s = NoCell is
\* start=None, which line 222 turns into the entry cell.
SolveCall(dest, s) ==
    /\ pc = "idle"
    /\ calls < MaxCalls
    /\ calls' = calls + 1
    /\ destination' = dest
    /\ start' = s
    /\ SolveEnter(dest, IF s = NoCell THEN <<ix, iy>> ELSE s, "None", <<>>)
    /\ UNCHANGED <<twinVars, gridVars, maze_map, makeVars>>

\* The loop gives up after the first direction it takes.
SolveRecurseFirstOnly ==
    /\ pc = "solve"
    /\ LET top == frames[Len(frames)]
       IN  /\ top.k <= Len(top.dirs)
           /\ SolveEnter(destination, move(top.cell, top.dirs[top.k]), top.dirs[top.k],
                         [frames EXCEPT ![Len(frames)].k = Len(top.dirs) + 1])
    /\ UNCHANGED <<twinVars, gridVars, maze_map, makeVars, destination, start, calls>>

\* Lines 238-240: the loop of the innermost frame takes its next direction
\* and calls solve on the cell there.
SolveRecurse ==
    /\ pc = "solve"
    /\ LET top == frames[Len(frames)]
       IN  /\ top.k <= Len(top.dirs)
           /\ SolveEnter(destination, move(top.cell, top.dirs[top.k]), top.dirs[top.k],
                         [frames EXCEPT ![Len(frames)].k = @ + 1])
    /\ UNCHANGED <<twinVars, gridVars, maze_map, makeVars, destination, start, calls>>

\* The frame returns False without taking its cell off the path.
SolveBacktrackNoPop ==
    /\ pc = "solve"
    /\ LET top == frames[Len(frames)]
       IN  /\ top.k > Len(top.dirs)
           /\ frames' = PopLast(frames)
           /\ pc' = IF Len(frames) = 1 THEN "idle" ELSE "solve"
           /\ result' = Outcome("solve", IF Len(frames) = 1 THEN ReturnedFalse ELSE Running)
    /\ UNCHANGED <<twinVars, gridVars, maze_map, solution, makeVars, destination, start, calls>>

\* The frame walls up the cell it rejects (dead-end filling) as it returns.
SolveBacktrackFill ==
    /\ pc = "solve"
    /\ LET top == frames[Len(frames)]
       IN  /\ top.k > Len(top.dirs)
           /\ solution' = PopLast(solution)
           /\ maze_map' = [maze_map EXCEPT ![top.cell] = NewWalls]
           /\ frames' = PopLast(frames)
           /\ pc' = IF Len(frames) = 1 THEN "idle" ELSE "solve"
           /\ result' = Outcome("solve", IF Len(frames) = 1 THEN ReturnedFalse ELSE Running)
    /\ UNCHANGED <<twinVars, gridVars, makeVars, destination, start, calls>>

\* Lines 243-244: the loop of the innermost frame is exhausted; it pops the
\* last cell of the path and returns False.
SolveBacktrack ==
    /\ pc = "solve"
    /\ LET top == frames[Len(frames)]
       IN  /\ top.k > Len(top.dirs)
           /\ IF solution = <<>>
              THEN /\ pc' = "idle"
                   /\ frames' = <<>>
                   /\ result' = Outcome("solve", RaisedIndexError)
                   /\ UNCHANGED solution
              ELSE /\ solution' = PopLast(solution)
                   /\ frames' = PopLast(frames)
                   /\ pc' = IF Len(frames) = 1 THEN "idle" ELSE "solve"
                   /\ result' = Outcome("solve",
                                        IF Len(frames) = 1 THEN ReturnedFalse ELSE Running)
    /\ UNCHANGED <<twinVars, gridVars, maze_map, makeVars, destination, start, calls>>

-----------------------------------------------------------------------------
(* The program *)

\* The dimensions Maze is constructed with: every w x h of at most MaxCells
\* cells, the empty grids (w = 0 or h = 0) included.
Dims == {d \in (0 .. MaxCells) \X (0 .. MaxCells) : d[1] * d[2] <= MaxCells}

\* The entry cells a w x h request is made with.
Entries(w, h) == IF CellsOf(w, h) = {} THEN {<<0, 0>>} ELSE CellsOf(w, h)

\* A maze is constructed, probed with cell_at, carved once, and then solved
\* from its entry cell (start=None) up to MaxCalls times.
Next ==
    \/ \E d \in Dims : \E e \in Entries(d[1], d[2]) : Construct(d[1], d[2], e[1], e[2])
    \/ \E c \in Coords : CellAtCall(c[1], c[2])
    \/ MakeMazeCall
    \/ Carve
    \/ Backtrack
    \/ MakeMazeReturn
    \/ \E dest \in Coords : SolveCall(dest, NoCell)
    \/ SolveRecurse
    \/ SolveBacktrack

Spec == Init /\ [][Next]_vars

\* The same program, solved once from any start handed to solve.
NextStart ==
    \/ \E d \in Dims : \E e \in Entries(d[1], d[2]) : Construct(d[1], d[2], e[1], e[2])
    \/ MakeMazeCall
    \/ Carve
    \/ Backtrack
    \/ MakeMazeReturn
    \/ \E dest \in Coords, s \in Coords : calls = 0 /\ SolveCall(dest, s)
    \/ SolveRecurse
    \/ SolveBacktrack

SpecStart == Init /\ [][NextStart]_vars

-----------------------------------------------------------------------------
(* The removed-wall graph *)

\* The wall between cell c and its grid neighbour in direction d is removed.
Removed(m, c, d) == ~m[c][d] /\ ~m[move(c, d)][wall_pairs[d]]

\* The removed walls, one per pair of grid-adjacent cells.
Passages(m) ==
    {{cd[1], move(cd[1], cd[2])} :
        cd \in {x \in Cells \X Dirs : move(x[1], x[2]) \in Cells /\ Removed(m, x[1], x[2])}}

\* The cells one passage of E away from a cell of S, with S.
Grow(E, S) == S \cup {c \in Cells : \E s \in S : {s, c} \in E}

\* The cells reachable from S through the passages E.
RECURSIVE ReachFrom(_, _)
ReachFrom(E, S) == IF Grow(E, S) = S THEN S ELSE ReachFrom(E, Grow(E, S))

\* No passage closes a cycle: without it, its ends are not connected.
Acyclic(E) ==
    \A e \in E : \A a \in e : \A b \in e \ {a} : b \notin ReachFrom(E \ {e}, {a})

\* The number of simple paths from cell a to cell b through E avoiding the
\* cells of `seen`.
RECURSIVE SimplePaths(_, _, _, _)
Sum(f, S) ==
    LET RECURSIVE Acc(_)
        Acc(T) == IF T = {} THEN 0 ELSE LET x == CHOOSE x \in T : TRUE IN f[x] + Acc(T \ {x})
    IN  Acc(S)
SimplePaths(E, a, b, seen) ==
    IF a = b THEN 1
    ELSE LET nextCells == {c \in Cells \ (seen \cup {a}) : {a, c} \in E}
         IN  Sum([c \in nextCells |-> SimplePaths(E, c, b, seen \cup {a})], nextCells)

\* p is a walk through removed walls: consecutive cells are grid-adjacent
\* and the wall between them is removed.
IsWalk(m, p) ==
    \A i \in 1 .. (Len(p) - 1) :
        \E d \in Dirs : move(p[i], d) = p[i + 1] /\ p[i + 1] \in Cells /\ Removed(m, p[i], d)

NoRepeat(p) == \A i, j \in 1 .. Len(p) : i # j => p[i] # p[j]

\* p is a simple path of the maze from cell a to cell b.
IsPathFromTo(m, p, a, b) ==
    /\ Len(p) >= 1
    /\ p[1] = a /\ p[Len(p)] = b
    /\ IsWalk(m, p)
    /\ NoRepeat(p)

Entry == <<ix, iy>>

\* make_maze has run and returned through its loop test.
Built == pc \in {"idle", "solve"} /\ nv >= 1 /\ ~(nv < n)

\* The start cell of the running or last top-level solve (line 222).
StartCell == IF start = NoCell THEN cell_at(ix, iy) ELSE cell_at(start[1], start[2])

\* A top-level solve has just returned or raised.
SolveEnded == pc = "idle" /\ result.op = "solve"

-----------------------------------------------------------------------------
(* Claims *)

\* C1: when make_maze terminates, the number of removed walls (one per
\* adjacent pair) is W*H - 1 and every cell is reachable from the entry cell.
C1_SpanningTree ==
    (Built /\ calls = 0) =>
        /\ Cardinality(Passages(maze_map)) = nx * ny - 1
        /\ ReachFrom(Passages(maze_map), {Entry}) = Cells

\* A finished maze on a grid with a cycle, with a junction: some cell has
\* three open walls, so the carving backtracked.
C1_Witness ==
    /\ Built /\ nx >= 2 /\ ny >= 2
    /\ \E c \in Cells : Cardinality({d \in Dirs : ~maze_map[c][d]}) = 3

\* C2: on a carved maze the first solve(destination) from the entry cell to
\* an in-bounds destination succeeds and leaves in solution a simple path
\* through removed walls from the entry to the destination.
C2_SolveCorrect ==
    (SolveEnded /\ Built /\ calls = 1 /\ start = NoCell /\ destination \in Cells) =>
        /\ result.val = ReturnedTrue
        /\ IsPathFromTo(maze_map, solution, Entry, destination)

\* A first solve that returned a path of four cells or more in a maze with
\* a junction.
C2_Witness ==
    /\ SolveEnded /\ Built /\ calls = 1 /\ start = NoCell /\ destination \in Cells
    /\ result.val = ReturnedTrue /\ Len(solution) >= 4
    /\ \E c \in Cells : Cardinality({d \in Dirs : ~maze_map[c][d]}) = 3

\* C3: at all times the two flags of the wall between two grid-adjacent
\* cells are equal.
C3_WallSymmetry ==
    \A c \in Cells, d \in Dirs :
        move(c, d) \in Cells => maze_map[c][d] = maze_map[move(c, d)][wall_pairs[d]]

\* make_maze in progress, with walls removed and cells left to visit.
C3_Witness ==
    /\ pc = "make" /\ nv >= 3 /\ nv < n
    /\ \E c \in Cells : \E d \in Dirs : ~maze_map[c][d]

\* The cells with at least one wall removed.
Carved(m) == {c \in Cells : \E d \in Dirs : ~m[c][d]}

\* C4: at every step of make_maze the removed-wall graph has no cycle and
\* the cells with a wall removed form one tree that holds the entry cell;
\* in the finished maze there is exactly one simple path from the entry to
\* every cell.
C4_Tree ==
    (calls = 0 /\ pc \in {"idle", "make"}) =>
        /\ Acyclic(Passages(maze_map))
        /\ Carved(maze_map) # {} =>
              /\ Entry \in Carved(maze_map)
              /\ ReachFrom(Passages(maze_map), {Entry}) = Carved(maze_map)
              /\ Cardinality(Passages(maze_map)) = Cardinality(Carved(maze_map)) - 1
        /\ Built => \A c \in Cells : SimplePaths(Passages(maze_map), Entry, c, {}) = 1

\* make_maze has just backtracked on a grid that has a cycle: the current
\* cell has an unvisited neighbour and a removed wall toward a cell that is
\* not the top of the stack.
C4_Witness ==
    /\ pc = "make" /\ nx >= 2 /\ ny >= 2 /\ nv < n
    /\ Len(find_valid_neighbours(maze_map, current_cell)) > 0
    /\ Cardinality({d \in Dirs : ~maze_map[current_cell][d]}) = 2

\* C5: after two successive top-level solve calls to in-bounds
\* destinations, solution holds exactly the path of the second call: on
\* success a simple path from its start cell to its destination, on failure
\* nothing.
C5_FreshPath ==
    (SolveEnded /\ calls = 2 /\ destination \in Cells) =>
        IF result.val = ReturnedTrue
        THEN IsPathFromTo(maze_map, solution, StartCell, destination)
        ELSE solution = <<>>

\* C6: cell_at raises for every (x, y) outside [0,nx) x [0,ny) and returns
\* no cell for it.
C6_CellAtBounds ==
    (result.op = "cell_at" /\ result.args \notin Cells) =>
        result.val = RaisedIndexError /\ result.cell = NoCell

\* C7: solve with a destination outside the grid raises before any
\* traversal: it never enters its loop, never returns a value, and leaves
\* the path alone.
C7_DestinationBounds ==
    (result.op = "solve" /\ destination \notin Cells) =>
        /\ pc = "idle"
        /\ result.val = RaisedIndexError

\* C8: no Maze with a non-positive dimension exists.
C8_Dimensions == pc # "new" => nx > 0 /\ ny > 0

\* C9: a solve from an in-bounds start cell that cannot reach its in-bounds
\* destination through removed walls (as on a grid that was not carved)
\* returns False, with the path empty.
C9_NotFound ==
    (SolveEnded /\ StartCell # NoCell /\ destination \in Cells
       /\ destination \notin ReachFrom(Passages(maze_map), {StartCell})) =>
        /\ result.val = ReturnedFalse
        /\ solution = <<>>

\* C10: no step of solve changes a wall flag.
C10_SolveKeepsWalls ==
    [][(calls' # calls \/ pc = "solve") => maze_map' = maze_map]_vars

\* A solve from a start other than the entry has found its destination
\* three cells or more away, in a maze with a junction.
C10_Witness ==
    /\ SolveEnded /\ Built /\ start \in Cells /\ start # Entry
    /\ result.val = ReturnedTrue /\ Len(solution) >= 3
    /\ \E c \in Cells : Cardinality({d \in Dirs : ~maze_map[c][d]}) = 3

-----------------------------------------------------------------------------
(* make_maze alone, run to completion *)

\* A maze is constructed and carved.  make_maze is a synchronous loop: while
\* it is running, its next iteration (or its return) is eventually taken.
NextBuild ==
    \/ \E d \in Dims : \E e \in Entries(d[1], d[2]) : Construct(d[1], d[2], e[1], e[2])
    \/ MakeMazeCall
    \/ Carve
    \/ Backtrack
    \/ MakeMazeReturn

SpecBuild ==
    /\ Init
    /\ [][NextBuild]_vars
    /\ WF_vars(Carve)
    /\ WF_vars(Backtrack)
    /\ WF_vars(MakeMazeReturn)

\* C11: make_maze, once running, eventually returns; it is running only
\* while nv <= W*H and has returned exactly with nv = W*H; and every carve
\* enters a cell that was not visited before (it has all its walls and is
\* not the entry cell), so with the entry every cell is visited exactly once.
C11_Terminates ==
    /\ (pc = "make") ~> (Built /\ nv = n /\ result = Outcome("make_maze", ReturnedNone))
    /\ [](pc = "make" => nv <= n)
    /\ [](Built => /\ nv = n
                   /\ \A c \in Cells \ {Entry} : \E d \in Dirs : ~maze_map[c][d])
    /\ [][(pc = "make" /\ nv' # nv) =>
             /\ nv' = nv + 1
             /\ current_cell' # Entry
             /\ \A d \in Dirs : maze_map[current_cell'][d]]_vars

\* make_maze has returned on a grid with a cycle after backtracking: the
\* finished maze has a junction.
C11_Witness ==
    /\ Built /\ nv = n /\ nx >= 2 /\ ny >= 2
    /\ result = Outcome("make_maze", ReturnedNone)
    /\ \E c \in Cells : Cardinality({d \in Dirs : ~maze_map[c][d]}) = 3

-----------------------------------------------------------------------------
(* Two independent builds *)

RaisedTypeError == "TypeError"

\* The seeds a caller may ask for.
Seeds == {"None", "seed1", "seed2"}

\* Maze(w, h, x, y, seed=...), the call of main.py line 9.  Maze.__init__
\* has no seed parameter (line 43): the call raises TypeError and no Maze
\* comes to exist.
ConstructSeeded(w, h, x, y, seed) ==
    /\ pc = "new"
    /\ result' = Outcome("init", RaisedTypeError)
    /\ UNCHANGED <<twinVars, pc, gridVars, maze_map, solution, makeVars, solveVars>>

\* A second, fresh Maze is constructed with the arguments of the first, which
\* has been carved; the first one's wall matrix is kept in first_map.  The
\* new object has its own cells and solution, and make_maze has not run on it.
ConstructAgain ==
    /\ pc = "idle"
    /\ Built
    /\ calls = 0
    /\ DOMAIN first_map = {}
    /\ first_map' = maze_map
    /\ maze_map' = [c \in CellsOf(nx, ny) |-> NewWalls]
    /\ solution' = <<>>
    /\ cell_stack' = <<>>
    /\ current_cell' = NoCell
    /\ nv' = 0
    /\ result' = Outcome("init", ReturnedNone)
    /\ UNCHANGED <<pc, gridVars, solveVars, suspended>>

\* Two mazes are built one after the other from the same arguments.  Nothing
\* in the repository seeds the random module, whose choices make_maze takes
\* (line 211): every choice is open in both builds.
NextTwin ==
    \/ \E d \in Dims : \E e \in Entries(d[1], d[2]) : Construct(d[1], d[2], e[1], e[2])
    \/ \E d \in Dims : \E e \in Entries(d[1], d[2]) : \E seed \in Seeds :
          ConstructSeeded(d[1], d[2], e[1], e[2], seed)
    \/ MakeMazeCall
    \/ Carve
    \/ Backtrack
    \/ MakeMazeReturn
    \/ ConstructAgain

SpecTwin == Init /\ [][NextTwin]_vars

\* Both builds are finished.
BothBuilt == Built /\ DOMAIN first_map # {}

\* C12: two builds with the same seed, dimensions and entry cell end with
\* identical wall matrices.
C12_Determinism == BothBuilt => maze_map = first_map

-----------------------------------------------------------------------------
(* Two solves on one maze, interleaved *)

\* Two threads call solve on the same carved Maze.  One runs at a time; a
\* switch suspends it between two steps and resumes the other with its own
\* arguments, frames and outcome.  The Maze, with its walls and its solution
\* list, is the one object both work on.
Switch ==
    /\ Built
    /\ calls >= 1
    /\ pc = "solve" \/ suspended.pc = "solve"
    /\ suspended' = Context(pc, destination, start, frames, result)
    /\ pc' = suspended.pc
    /\ destination' = suspended.destination
    /\ start' = suspended.start
    /\ frames' = suspended.frames
    /\ result' = suspended.result
    /\ UNCHANGED <<gridVars, maze_map, solution, makeVars, calls, first_map>>

NextPair ==
    \/ \E d \in Dims : \E e \in Entries(d[1], d[2]) :
          d[1] * d[2] <= MaxPairCells /\ Construct(d[1], d[2], e[1], e[2])
    \/ MakeMazeCall
    \/ Carve
    \/ Backtrack
    \/ MakeMazeReturn
    \/ \E dest \in Cells, s \in Cells : Built /\ SolveCall(dest, s)
    \/ SolveRecurse
    \/ SolveBacktrack
    \/ Switch

SpecPair == Init /\ [][NextPair]_vars

\* C13: a solve that interleaves with another solve, for a different
\* start/destination pair, on a carved maze ends as it does alone: it
\* returns True and solution is the simple path from its start to its
\* destination.  Stated for the solve that ends first, the other one being
\* in its loop.
C13_Interleaved ==
    (/\ Built /\ SolveEnded
     /\ suspended.pc = "solve"
     /\ <<suspended.start, suspended.destination>> # <<start, destination>>) =>
        /\ result.val = ReturnedTrue
        /\ IsPathFromTo(maze_map, solution, StartCell, destination)

-----------------------------------------------------------------------------
(* Further claims *)

\* C14: on a 1x1 grid make_maze returns at once with nv = 1: no carve and no
\* backtrack runs (the stack stays empty, nv never passes 1, no pop fails),
\* the cell keeps its four walls, and the first solve from (0,0) to (0,0)
\* on the maze returns True with solution [(0,0)].
C14_OneByOne ==
    (nx = 1 /\ ny = 1) =>
        /\ \A d \in Dirs : maze_map[<<0, 0>>][d]
        /\ cell_stack = <<>>
        /\ nv <= 1
        /\ pc = "make" => (nv = 1 /\ current_cell = <<0, 0>>)
        /\ (pc = "idle" /\ result.op = "make_maze") =>
              (result.val = ReturnedNone /\ nv = 1)
        /\ (Built /\ SolveEnded /\ calls = 1 /\ destination = <<0, 0>>) =>
              (result.val = ReturnedTrue /\ solution = << <<0, 0>> >>)

\* The 1x1 maze was built and then solved to (0,0).
C14_Witness ==
    /\ nx = 1 /\ ny = 1 /\ Built /\ nv = 1
    /\ SolveEnded /\ calls = 1 /\ destination = <<0, 0>>
    /\ solution = << <<0, 0>> >>

\* The same program as SpecStart; a running solve takes its next step.
SpecStartFair ==
    /\ Init
    /\ [][NextStart]_vars
    /\ WF_vars(SolveRecurse)
    /\ WF_vars(SolveBacktrack)

\* C15: on a carved maze a solve from any in-bounds start to any in-bounds
\* destination ends, and it ends with True.
C15_SolveTerminates ==
    /\ (pc = "solve" /\ Built /\ start \in Cells /\ destination \in Cells) ~> SolveEnded
    /\ []((SolveEnded /\ Built /\ start \in Cells /\ destination \in Cells) =>
             result.val = ReturnedTrue)

\* A solve from a start other than the entry returned True in a maze with a
\* junction, with a path of three cells or more that leaves cells out.
C15_Witness ==
    /\ SolveEnded /\ Built /\ start \in Cells /\ start # Entry /\ destination \in Cells
    /\ result.val = ReturnedTrue
    /\ Len(solution) >= 3 /\ Len(solution) < n
    /\ \E c \in Cells : Cardinality({d \in Dirs : ~maze_map[c][d]}) = 3

\* C16: make_maze never backtracks with an empty stack: at a dead end with
\* cells left to visit the stack is not empty, and make_maze on a grid with
\* a cell never raises.
C16_PopNeverFails ==
    /\ (pc = "make" /\ nv < n
          /\ Len(find_valid_neighbours(maze_map, current_cell)) = 0) => cell_stack # <<>>
    /\ (result.op = "make_maze" /\ n >= 1) => result.val # RaisedIndexError

\* make_maze is at a dead end with cells left to visit.
C16_Witness ==
    /\ pc = "make" /\ nv < n
    /\ Len(find_valid_neighbours(maze_map, current_cell)) = 0
    /\ cell_stack # <<>>

\* C17: every neighbour make_maze considers for carving is a cell of the
\* grid; on a carved maze, from an in-bounds start and for any destination,
\* every frame of solve is at a cell of the grid, the cell its loop moves to
\* next is a cell of the grid, and solve raises no IndexError.
C17_InBounds ==
    /\ pc = "make" =>
          \A i \in 1 .. Len(find_valid_neighbours(maze_map, current_cell)) :
              move(current_cell, find_valid_neighbours(maze_map, current_cell)[i][1]) \in Cells
    /\ (pc = "solve" /\ Built /\ start \in Cells) =>
          \A j \in 1 .. Len(frames) :
              /\ frames[j].cell \in Cells
              /\ \A k \in 1 .. Len(frames[j].dirs) :
                    move(frames[j].cell, frames[j].dirs[k]) \in Cells
    /\ (SolveEnded /\ Built /\ start \in Cells) => result.val # RaisedIndexError

\* A solve for a destination outside the grid is in its loop, two frames
\* deep, on a carved maze.
C17_Witness ==
    /\ pc = "solve" /\ Built /\ start \in Cells /\ destination \notin Cells
    /\ Len(frames) >= 2

\* C18 as claimed: when make_maze has returned, the stack is empty and the
\* current cell is the entry cell.
C18_StackEmptied == Built => (cell_stack = <<>> /\ current_cell = Entry)

\* C18 as amended: when make_maze has returned on a grid of more than one
\* cell, the stack is not empty, its bottom is the entry cell and the
\* current cell is not the entry cell; on a 1x1 grid the stack is empty and
\* the current cell is the entry cell.
C18_StackAtReturn ==
    Built =>
        IF n = 1
        THEN cell_stack = <<>> /\ current_cell = Entry
        ELSE cell_stack # <<>> /\ cell_stack[1] = Entry /\ current_cell # Entry

\* make_maze has returned after backtracking: the maze has a junction, and
\* fewer cells are on the stack than were visited.
C18_Witness ==
    /\ Built /\ Len(cell_stack) >= 2 /\ Len(cell_stack) + 1 < nv
    /\ \E c \in Cells : Cardinality({d \in Dirs : ~maze_map[c][d]}) = 3

\* C19: at every step of make_maze the stack, bottom to top, followed by the
\* current cell is a simple path through removed walls that starts at the
\* entry cell.
C19_StackIsPath ==
    (pc = "make" \/ Built) =>
        IsPathFromTo(maze_map, Append(cell_stack, current_cell), Entry, current_cell)

\* make_maze is running and has backtracked: more cells were visited than
\* are on the stack and current.
C19_Witness ==
    /\ pc = "make" /\ nv < n
    /\ Len(cell_stack) >= 1 /\ Len(cell_stack) + 1 < nv

====
